---- MODULE Spec2Model ----
(***************************************************************************)
(* Model of the boltdb index inspection of loki-f (src/src/bolt.rs) and of *)
(* the time range resolution it uses (src/src/query.rs).                   *)
(*                                                                         *)
(* Strings are sequences of one-byte tokens ("a", ":", NUL, ...), compared *)
(* byte-wise as Rust compares String.  A NaiveDateTime is the number of    *)
(* milliseconds since the Unix epoch.  A u32 is the pair <<hi, lo>> of its *)
(* 16-bit halves, so that the `as u32` casts keep their width.             *)
(*                                                                         *)
(* The chunk decoder (src/src/ty.rs) reads a byte stream: a sequence of    *)
(* integers 0..255 and a reader position counted from 0.  There a          *)
(* NaiveDateTime is the record [secs, nanos] handed to from_timestamp.     *)
(* The streams of the model keep every varint below 2^31, where the u64    *)
(* shifts of the decoder never overflow.                                   *)
(***************************************************************************)
EXTENDS Integers, Sequences, FiniteSets, Bags, TLC

VARIABLES
    b,            \* the Bolt arguments: time_range, query, tenant, shard, disable_broad_queries
    now,          \* Local::now() at the time of the run, in ms
    db,           \* the "index" bucket of the boltdb file: [key, value] pairs, keys unique, value an Option
    pc,           \* position of inspect
    buckets,      \* Vec<Bucket> returned by get_buckets
    start,        \* start of the resolved time range, ms
    end,          \* end of the resolved time range, ms
    kv_idx,       \* number of predicates of b.query already processed
    series_ids,   \* the HashSet<String> accumulator of inspect
    unique_sets,  \* the unique_set of every processed predicate, in order
    queries,      \* the queries computed last
    entries,      \* the entries fetched last
    result,       \* the chunk ids of stage B
    chunk_refs,   \* the final Vec<ChunkRef>
    rv,           \* argument of parse_chunk_time_range_value under test
    parsed,       \* its return value
    runs,         \* results of get_entries_from_queries, per strategy
    data,         \* the byte stream handed to the chunk decoder
    args,         \* the number of entries asked of UnorderedBlock::read_options
    blk,          \* UnorderedBlock::read_options: reader position, status, entries, locals
    block_meta,   \* the return value of BlockMeta::read_options on data
    cd,           \* ChunkData::read_options: position in the code and locals
    from_through  \* the return value of get_duration in query()

vars == <<b, now, db, pc, buckets, start, end, kv_idx, series_ids, unique_sets,
          queries, entries, result, chunk_refs, rv, parsed, runs,
          data, args, blk, block_meta, cd, from_through>>

\* the variables of the index inspection
bolt_vars == <<b, now, db, pc, buckets, start, end, kv_idx, series_ids, unique_sets,
               queries, entries, result, chunk_refs, rv, parsed, runs>>

\* the variables of the chunk decoder
ty_vars == <<data, args, blk, block_meta, cd>>

\* the variables of the query command
query_vars == <<from_through>>

----------------------------------------------------------------------------
(* Bytes and strings *)

NUL == "NUL"

\* Option<T>: None is the empty sequence, Some(x) is <<x>>
None == <<>>

Some(x) == <<x>>

Digits == <<"0", "1", "2", "3", "4", "5", "6", "7", "8", "9">>

HexDigits == <<"0", "1", "2", "3", "4", "5", "6", "7", "8", "9",
               "a", "b", "c", "d", "e", "f">>

Upper == <<"A", "B", "C", "D", "E", "F", "G", "H", "I", "J", "K", "L", "M",
           "N", "O", "P", "Q", "R", "S", "T", "U", "V", "W", "X", "Y", "Z">>

Lower == <<"a", "b", "c", "d", "e", "f", "g", "h", "i", "j", "k", "l", "m",
           "n", "o", "p", "q", "r", "s", "t", "u", "v", "w", "x", "y", "z">>

Range(s) == {s[i] : i \in 1..Len(s)}

IndexOf(s, c) == CHOOSE i \in 1..Len(s) : s[i] = c

\* the byte value of a token
CharCode(c) ==
    CASE c = NUL -> 0
      [] c = "+" -> 43
      [] c = "-" -> 45
      [] c = "/" -> 47
      [] c \in Range(Digits) -> 47 + IndexOf(Digits, c)
      [] c = ":" -> 58
      [] c \in Range(Upper) -> 64 + IndexOf(Upper, c)
      [] c = "_" -> 95
      [] c \in Range(Lower) -> 96 + IndexOf(Lower, c)

\* str::starts_with
StartsWith(s, p) == Len(p) <= Len(s) /\ SubSeq(s, 1, Len(p)) = p

RECURSIVE FirstDiff(_, _, _)
\* the first index from i on at which s and t differ, or 0 when one is a
\* prefix of the other
FirstDiff(s, t, i) ==
    IF i > Len(s) \/ i > Len(t) THEN 0
    ELSE IF s[i] # t[i] THEN i
    ELSE FirstDiff(s, t, i + 1)

\* s < t, given the first index i at which they differ
LessAt(s, t, i) ==
    IF i = 0 THEN Len(s) < Len(t)
    ELSE CharCode(s[i]) < CharCode(t[i])

\* s < t in the byte-wise lexicographic order of String
StrLess(s, t) == LessAt(s, t, FirstDiff(s, t, 1))

RECURSIVE SplitFrom(_, _, _)
SplitFrom(s, sep, cur) ==
    IF s = <<>> THEN <<cur>>
    ELSE IF Head(s) = sep THEN <<cur>> \o SplitFrom(Tail(s), sep, <<>>)
    ELSE SplitFrom(Tail(s), sep, Append(cur, Head(s)))

\* str::split on a one-byte separator: always at least one component
Split(s, sep) == SplitFrom(s, sep, <<>>)

RECURSIVE DecNat(_)
DecNat(n) == IF n < 10 THEN <<Digits[n + 1]>>
             ELSE Append(DecNat(n \div 10), Digits[(n % 10) + 1])

\* format!("{}", n) of an integer
Dec(n) == IF n < 0 THEN <<"-">> \o DecNat(-n) ELSE DecNat(n)

\* format!("{:02}", i) of a u32: zero padded to a width of at least two
Fmt02(i) == IF i < 10 THEN <<"0">> \o DecNat(i) ELSE DecNat(i)

\* format!("{:02x}", x)
Fmt02x(x) == IF x < 16 THEN <<"0", HexDigits[x + 1]>>
             ELSE <<HexDigits[(x \div 16) + 1], HexDigits[(x % 16) + 1]>>

Max(x, y) == IF x >= y THEN x ELSE y

Min(x, y) == IF x <= y THEN x ELSE y

\* Rust's integer division, which truncates toward zero
TruncDiv(x, y) == IF x >= 0 THEN x \div y ELSE -((-x) \div y)

\* `v as u32` of an i64 with |v| < 2^31: v modulo 2^32, as <<hi, lo>>
AsU32(v) == <<(v \div 65536) % 65536, v % 65536>>

U32Le(x, y) == x[1] < y[1] \/ (x[1] = y[1] /\ x[2] <= y[2])

----------------------------------------------------------------------------
(* Time range resolution: query.rs *)

\* get_duration_helper; an absent option is None, durations are in ms
get_duration_helper(o_start, o_end, o_duration, o_since, t_now) ==
    IF o_since # None
    THEN IF o_start # None \/ o_end # None \/ o_duration # None
         THEN [ok |-> FALSE]
         ELSE [ok |-> TRUE, start |-> t_now - o_since[1], end |-> t_now]
    ELSE IF o_duration # None /\ o_start # None /\ o_end # None
         THEN [ok |-> FALSE]
    ELSE IF o_duration # None /\ o_start = None /\ o_end = None
         THEN [ok |-> FALSE]
    ELSE IF o_duration # None /\ o_start # None
         THEN [ok |-> TRUE, start |-> o_start[1], end |-> o_start[1] + o_duration[1]]
    ELSE IF o_duration # None
         THEN [ok |-> TRUE, start |-> o_end[1] - o_duration[1], end |-> o_end[1]]
    ELSE IF o_start = None \/ o_end = None
         THEN [ok |-> FALSE]
    ELSE [ok |-> TRUE, start |-> o_start[1], end |-> o_end[1]]

get_duration(q, t_now) ==
    get_duration_helper(q.start, q.end, q.duration, q.since, t_now)

----------------------------------------------------------------------------
(* Index key schema and query planner: bolt.rs *)

DayMs == 86400000

DaySecs == 86400

HourMs == 3600000

\* NaiveDateTime::timestamp of a time given in ms: whole seconds, rounded down
Timestamp(ms) == ms \div 1000

\* the time range get_buckets settles on: get_duration, or the past hour
ResolveRange(bolt, t_now) ==
    LET k == get_duration(bolt.time_range, t_now)
    IN  IF k.ok THEN <<k.start, k.end>> ELSE <<t_now - HourMs, t_now>>

\* the Bucket pushed for day d
BucketOf(tenant, d, t_start, t_end) ==
    LET relative_from == Max(0, t_start - d * DayMs)
        relative_through == Min(DayMs, t_end - d * DayMs)
    IN  [from |-> AsU32(relative_from),
         through |-> AsU32(relative_through),
         table_name |-> <<"i", "n", "d", "e", "x", "_">> \o Dec(d),
         hash_key |-> tenant \o <<":", "d">> \o Dec(d),
         bucket_size |-> AsU32(DayMs)]

\* the Vec<Bucket> of get_buckets for the resolved range
get_buckets(tenant, t_start, t_end) ==
    LET from_day == TruncDiv(Timestamp(t_start), DaySecs)
        to_day == TruncDiv(Timestamp(t_end), DaySecs)
        n == Max(0, to_day - from_day + 1)
    IN  [i \in 1..n |-> BucketOf(tenant, from_day + i - 1, t_start, t_end)]

B64Alphabet == Upper \o Lower \o Digits \o <<"+", "/">>

RECURSIVE Mix(_, _)
Mix(s, h) == IF s = <<>> THEN h
             ELSE Mix(Tail(s), (h * 31 + CharCode(Head(s)) + 7) % 4096)

\* encode_config(digest(&SHA256, value), STANDARD_NO_PAD): the digest of the
\* ring crate is abstracted to a 12-bit mix of the bytes, rendered in the
\* base64 alphabet (two characters instead of 43)
B64Sha256(value) ==
    LET h == Mix(value, 0)
    IN  <<B64Alphabet[(h \div 64) + 1], B64Alphabet[(h % 64) + 1]>>

\* LabelQuery with the loop over shards starting at 1 (for i in 1..=shard)
LabelQueryShardFromOne(i, bucket, kv) ==
    [table_name |-> bucket.table_name,
     hash_value |-> Fmt02(i + 1) \o <<":">> \o bucket.hash_key
                    \o <<":", "l", "o", "g", "s", ":">> \o kv.key,
     range_value_prefix |-> B64Sha256(kv.value) \o <<NUL>>,
     range_value_start |-> <<>>,
     value_equal |-> kv.value]

\* the Query pushed by calc_queries for shard i of a bucket
LabelQuery(i, bucket, kv) ==
    [table_name |-> bucket.table_name,
     hash_value |-> Fmt02(i) \o <<":">> \o bucket.hash_key
                    \o <<":", "l", "o", "g", "s", ":">> \o kv.key,
     range_value_prefix |-> B64Sha256(kv.value) \o <<NUL>>,
     range_value_start |-> <<>>,
     value_equal |-> kv.value]

calc_queries(shard, bs, kv) ==
    [k \in 1..(Len(bs) * shard) |->
        LabelQuery((k - 1) % shard, bs[((k - 1) \div shard) + 1], kv)]

\* encode_time with the bytes in little endian order
encode_time_le(from) ==
    Fmt02x(from[2] % 256) \o Fmt02x(from[2] \div 256)
        \o Fmt02x(from[1] % 256) \o Fmt02x(from[1] \div 256)

\* encode_time: big endian hex of a u32
encode_time(from) ==
    Fmt02x(from[1] \div 256) \o Fmt02x(from[1] % 256)
        \o Fmt02x(from[2] \div 256) \o Fmt02x(from[2] % 256)

SeriesQuery(bucket, id) ==
    [table_name |-> bucket.table_name,
     hash_value |-> bucket.hash_key \o <<":">> \o id,
     range_value_prefix |-> <<>>,
     range_value_start |-> encode_time(bucket.from),
     value_equal |-> <<>>]

\* calc_queries_for_serires: ids is the Vec collected from the HashSet
calc_queries_for_serires(bs, ids) ==
    [k \in 1..(Len(bs) * Len(ids)) |->
        SeriesQuery(bs[((k - 1) \div Len(ids)) + 1], ids[((k - 1) % Len(ids)) + 1])]

----------------------------------------------------------------------------
(* Index executor: bolt.rs *)

\* filter_entries's test without the range_value_start comparison
KeepIgnoringStart(x, query) ==
    /\ ~(Len(query.range_value_prefix) > 0
         /\ ~StartsWith(x.range_value, query.range_value_prefix))
    /\ ~(Len(query.value_equal) > 0 /\ query.value_equal # x.value)

\* the filter closure of filter_entries
Keep(x, query) ==
    /\ ~(Len(query.range_value_prefix) > 0
         /\ ~StartsWith(x.range_value, query.range_value_prefix))
    /\ ~(Len(query.range_value_start) > 0
         /\ StrLess(x.range_value, query.range_value_start))
    /\ ~(Len(query.value_equal) > 0 /\ query.value_equal # x.value)

filter_entries(es, query) == SelectSeq(es, LAMBDA x : Keep(x, query))

\* Bucket::for_each visits the pairs in the order of their keys
InsertAt(sorted, p, k) == SubSeq(sorted, 1, k) \o <<p>> \o SubSeq(sorted, k + 1, Len(sorted))

\* p put at its place in a sequence of pairs sorted by key
InsertPair(sorted, p) ==
    InsertAt(sorted, p, Cardinality({i \in 1..Len(sorted) : StrLess(sorted[i].key, p.key)}))

PickPair(pairs) == CHOOSE p \in pairs : TRUE

RECURSIVE SortedPairs(_)
SortedPairs(pairs) ==
    IF pairs = {} THEN <<>>
    ELSE InsertPair(SortedPairs(pairs \ {PickPair(pairs)}), PickPair(pairs))

\* the key prefix one query scans for
ScanStart(query) ==
    IF Len(query.range_value_prefix) > 0
    THEN query.hash_value \o <<NUL>> \o query.range_value_prefix
    ELSE query.hash_value \o <<NUL>>

\* the for_each callback: does the pair add an entry to sub_entries
Collected(p, query) ==
    /\ StartsWith(p.key, ScanStart(query))
    /\ p.value # None
    /\ (Len(query.value_equal) > 0 => p.value[1] = query.value_equal)

\* one iteration of the loop of query_pages, over the pairs in key order
\* the Entry pushed to sub_entries for a pair
EntryOf(p, query) ==
    [table_name |-> query.table_name,
     hash_value |-> ScanStart(query),
     range_value |-> SubSeq(p.key, Len(query.hash_value) + 2, Len(p.key)),
     value |-> p.value[1]]

\* the sub_entries collected from the pairs that passed the callback
SubEntries(hits, query) == [i \in 1..Len(hits) |-> EntryOf(hits[i], query)]

QueryPage(sorted, query) ==
    filter_entries(SubEntries(SelectSeq(sorted, LAMBDA p : Collected(p, query)), query),
                   query)

\* what each query of the list adds to entries
Pages(sorted, qs) == [i \in 1..Len(qs) |-> QueryPage(sorted, qs[i])]

RECURSIVE FlattenRange(_, _, _)
FlattenRange(ps, lo, hi) ==
    IF lo > hi THEN <<>>
    ELSE IF lo = hi THEN ps[lo]
    ELSE LET mid == (lo + hi) \div 2
         IN  FlattenRange(ps, lo, mid) \o FlattenRange(ps, mid + 1, hi)

\* the concatenation of a sequence of sequences
Flatten(ps) == FlattenRange(ps, 1, Len(ps))

\* query_pages: entries.extend(...) for every query, in order
query_pages(store, qs) == Flatten(Pages(SortedPairs(store), qs))

\* the broad rewrite with value_equal taken for the blank prefix
BroadQueriesValueAsPrefix(qs) ==
    [i \in 1..Len(qs) |-> [qs[i] EXCEPT !.range_value_prefix = qs[i].value_equal]]

\* lines 296-302: the queries do_broad_queries hands to query_pages
BroadQueries(qs) == [i \in 1..Len(qs) |-> [qs[i] EXCEPT !.range_value_prefix = <<>>]]

do_broad_queries(store, qs) == query_pages(store, BroadQueries(qs))

get_entries_from_queries(disable_broad_queries, store, qs) ==
    IF ~disable_broad_queries THEN do_broad_queries(store, qs)
    ELSE query_pages(store, qs)

\* the entries get_entries_from_queries returns, query by query
PagesOf(disable_broad_queries, store, qs) ==
    Pages(SortedPairs(store), IF ~disable_broad_queries THEN BroadQueries(qs) ELSE qs)

\* parse_chunk_time_range_value with the two kinds exchanged
parse_chunk_time_range_value_swapped(range_value) ==
    LET components == Split(range_value, NUL)
    IN  IF Len(components) # 5
        THEN [ok |-> FALSE, err |-> "components lens"]
        ELSE IF components[4] = <<"3">> THEN [ok |-> TRUE, id |-> components[2]]
        ELSE IF components[4] = <<"8">> THEN [ok |-> TRUE, id |-> components[3]]
        ELSE [ok |-> FALSE, err |-> "unexpected value"]

\* parse_chunk_time_range_value
parse_chunk_time_range_value(range_value) ==
    LET components == Split(range_value, NUL)
    IN  IF Len(components) # 5
        THEN [ok |-> FALSE, err |-> "components lens"]
        ELSE IF components[4] = <<"3">> THEN [ok |-> TRUE, id |-> components[3]]
        ELSE IF components[4] = <<"8">> THEN [ok |-> TRUE, id |-> components[2]]
        ELSE [ok |-> FALSE, err |-> "unexpected value"]

----------------------------------------------------------------------------
(* Chunk references: bolt.rs, the last loop of inspect *)

HexDigitVal(c) ==
    IF c \in Range(HexDigits) THEN IndexOf(HexDigits, c) - 1
    ELSE IF c \in Range(SubSeq(Upper, 1, 6)) THEN IndexOf(Upper, c) + 9
    ELSE -1

RECURSIVE HexValue(_, _)
HexValue(ds, acc) == IF ds = <<>> THEN acc
                     ELSE HexValue(Tail(ds), acc * 16 + HexDigitVal(Head(ds)))

RECURSIVE StripZeros(_)
StripZeros(ds) == IF ds # <<>> /\ Head(ds) = "0" THEN StripZeros(Tail(ds)) ELSE ds

\* {u64, i64, u32}::from_str_radix(src, 16); the overflow test is made on the
\* significant digits, the value is computed for what passes it
from_str_radix(src, signed, bits) ==
    IF src = <<>> THEN [ok |-> FALSE]
    ELSE IF Head(src) \in {"+", "-"} /\ Len(src) = 1 THEN [ok |-> FALSE]
    ELSE LET negative == signed /\ Head(src) = "-"
             ds == IF Head(src) = "+" \/ negative THEN Tail(src) ELSE src
             sig == StripZeros(ds)
             width == bits \div 4
             top == IF signed THEN 8 ELSE 16
             overflow ==
                 \/ Len(sig) > width
                 \/ /\ Len(sig) = width
                    /\ HexDigitVal(Head(sig)) >= top
                    /\ ~(negative /\ sig = <<"8">> \o [i \in 1..(width - 1) |-> "0"])
         IN  IF \E i \in 1..Len(ds) : HexDigitVal(ds[i]) < 0 THEN [ok |-> FALSE]
             ELSE IF overflow THEN [ok |-> FALSE]
             ELSE [ok |-> TRUE,
                   val |-> IF negative THEN -HexValue(sig, 0) ELSE HexValue(sig, 0)]

\* the test of line 123 with inclusive comparisons
OutOfRangeInclusive(from, to, t_start, t_end) == to <= t_start \/ from >= t_end

\* the test of line 123: is the reference skipped
OutOfRange(from, to, t_start, t_end) == to < t_start \/ from > t_end

\* the body of the loop for one chunk id r: a reference to push, a skip,
\* an Err returned by `?`, or a panic (unwrap of None, index out of bounds)
ChunkRefStep(r, t_start, t_end) ==
    LET rsp == Split(r, "/")
    IN  IF Len(rsp) < 2 THEN [st |-> "panic"]
        ELSE
        LET parts == Split(rsp[2], ":")
            fingerprint == from_str_radix(parts[1], FALSE, 64)
        IN  IF ~fingerprint.ok THEN [st |-> "error"]
            ELSE IF Len(parts) < 2 THEN [st |-> "panic"]
            ELSE
            LET from == from_str_radix(parts[2], TRUE, 64)
            IN  IF ~from.ok THEN [st |-> "error"]
                ELSE IF Len(parts) < 3 THEN [st |-> "panic"]
                ELSE
                LET to == from_str_radix(parts[3], TRUE, 64)
                IN  IF ~to.ok THEN [st |-> "error"]
                    ELSE IF Len(parts) < 4 THEN [st |-> "panic"]
                    ELSE
                    LET checksum == from_str_radix(parts[4], FALSE, 32)
                    IN  IF ~checksum.ok THEN [st |-> "error"]
                        ELSE IF OutOfRange(from.val, to.val, t_start, t_end)
                        THEN [st |-> "skip"]
                        ELSE [st |-> "push",
                              ref |-> [user_id |-> rsp[1],
                                       fingerprint |-> fingerprint.val,
                                       from |-> from.val,
                                       to |-> to.val,
                                       checksum |-> checksum.val]]

RECURSIVE ChunkRefsLoop(_, _, _, _)
\* the loop over result, from the chunk_refs collected so far
ChunkRefsLoop(rs, refs, t_start, t_end) ==
    IF rs = <<>> THEN [st |-> "done", refs |-> refs]
    ELSE LET step == ChunkRefStep(Head(rs), t_start, t_end)
         IN  IF step.st \in {"error", "panic"} THEN [st |-> step.st, refs |-> <<>>]
             ELSE ChunkRefsLoop(Tail(rs),
                                IF step.st = "push" THEN Append(refs, step.ref) ELSE refs,
                                t_start, t_end)

----------------------------------------------------------------------------
(* inspect: bolt.rs *)

\* lines 83-88: the accumulator after one predicate
Accumulate(acc, unique_set) ==
    IF acc = {} THEN unique_set ELSE acc \cap unique_set

\* the parse of every entry, collected into a Result<Vec<_>>
Collect(batch) ==
    IF \E i \in 1..Len(batch) : ~batch[i].ok THEN [ok |-> FALSE]
    ELSE [ok |-> TRUE, ids |-> [i \in 1..Len(batch) |-> batch[i].id]]

\* ParseAll that leaves out the entries that fail to parse
ParseAllSkipping(es) ==
    Collect(SelectSeq([i \in 1..Len(es) |-> parse_chunk_time_range_value(es[i].range_value)],
                      LAMBDA r : r.ok))

\* lines 70-74 and 106-109: every entry parsed, the first Err returned
ParseAll(es) ==
    Collect([i \in 1..Len(es) |-> parse_chunk_time_range_value(es[i].range_value)])

\* the orders in which a HashSet can be collected into a Vec
Orders(set) ==
    {s \in [1..Cardinality(set) -> set] : \A x \in set : \E i \in DOMAIN s : s[i] = x}

\* lines 53-57
GetBuckets ==
    /\ pc = "get_buckets"
    /\ \E r \in {ResolveRange(b, now)} :
         /\ buckets' = get_buckets(b.tenant, r[1], r[2])
         /\ start' = r[1]
         /\ end' = r[2]
    /\ series_ids' = {}
    /\ pc' = "predicates"
    /\ UNCHANGED <<b, now, db, kv_idx, unique_sets, queries, entries, result,
                   chunk_refs, rv, parsed, runs>>
    /\ UNCHANGED ty_vars
    /\ UNCHANGED query_vars

\* lines 58-89: one iteration of the loop over b.query
Predicate ==
    /\ pc = "predicates"
    /\ kv_idx < Len(b.query)
    /\ queries' = calc_queries(b.shard, buckets, b.query[kv_idx + 1])
    /\ entries' = get_entries_from_queries(b.disable_broad_queries, db, queries')
    /\ \E batch_result \in {ParseAll(entries')} :
         IF ~batch_result.ok
         THEN /\ pc' = "error"
              /\ UNCHANGED <<kv_idx, series_ids, unique_sets>>
         ELSE \E unique_set \in {Range(batch_result.ids)} :
                /\ series_ids' = Accumulate(series_ids, unique_set)
                /\ unique_sets' = Append(unique_sets, unique_set)
                /\ kv_idx' = kv_idx + 1
                /\ pc' = "predicates"
    /\ UNCHANGED <<b, now, db, buckets, start, end, result, chunk_refs,
                   rv, parsed, runs>>
    /\ UNCHANGED ty_vars
    /\ UNCHANGED query_vars

\* lines 90-111: the queries by series id and their entries
StageB ==
    /\ pc = "predicates"
    /\ kv_idx = Len(b.query)
    /\ \E ids \in Orders(series_ids) :
         /\ queries' = calc_queries_for_serires(buckets, ids)
         /\ entries' = get_entries_from_queries(FALSE, db, queries')
         /\ \E r \in {ParseAll(entries')} :
              IF ~r.ok
              THEN /\ pc' = "error"
                   /\ UNCHANGED result
              ELSE /\ result' = r.ids
                   /\ pc' = "chunk_refs"
    /\ UNCHANGED <<b, now, db, buckets, start, end, kv_idx, series_ids,
                   unique_sets, chunk_refs, rv, parsed, runs>>
    /\ UNCHANGED ty_vars
    /\ UNCHANGED query_vars

\* lines 113-136
ChunkRefs ==
    /\ pc = "chunk_refs"
    /\ \E r \in {ChunkRefsLoop(result, <<>>, start, end)} :
         /\ chunk_refs' = r.refs
         /\ pc' = r.st
    /\ UNCHANGED <<b, now, db, buckets, start, end, kv_idx, series_ids,
                   unique_sets, queries, entries, result, rv, parsed, runs>>
    /\ UNCHANGED ty_vars
    /\ UNCHANGED query_vars

InspectNext == GetBuckets \/ Predicate \/ StageB \/ ChunkRefs

----------------------------------------------------------------------------
(* Inputs *)

Str1(c) == <<c>>

KV(k, v) == [key |-> k, value |-> v]

AppN == KV(<<"a", "p", "p">>, <<"n">>)

EnvP == KV(<<"e", "n", "v">>, <<"p">>)

JobJ == KV(<<"j", "o", "b">>, <<"j">>)

T1 == <<"t", "1">>

T2 == <<"t", "2">>

S1 == <<"s", "1">>

S2 == <<"s", "2">>

S3 == <<"s", "3">>

\* key of a v11 label entry: hash value, NUL, value hash, series id, kind "8"
LabelKey(shard, tenant, day, label, hash, sid) ==
    shard \o <<":">> \o tenant \o <<":", "d">> \o day
          \o <<":", "l", "o", "g", "s", ":">> \o label
          \o <<NUL>> \o hash \o <<NUL>> \o sid \o <<NUL, NUL, "8", NUL>>

\* key of a v11 chunk entry: hash value, NUL, through, chunk id, kind "3"
ChunkKey(tenant, day, sid, through, chunk_id) ==
    tenant \o <<":", "d">> \o day \o <<":">> \o sid
           \o <<NUL>> \o through \o <<NUL, NUL>> \o chunk_id \o <<NUL, "3", NUL>>

Pair(k, v) == [key |-> k, value |-> v]

IdleInspect ==
    /\ pc = "get_buckets"
    /\ buckets = <<>>
    /\ start = 0
    /\ end = 0
    /\ kv_idx = 0
    /\ series_ids = {}
    /\ unique_sets = <<>>
    /\ queries = <<>>
    /\ entries = <<>>
    /\ result = <<>>
    /\ chunk_refs = <<>>

IdleParse == rv = <<>> /\ parsed = None

IdleExec == runs = [broad |-> None, narrow |-> None]

IdleBlock ==
    /\ args = 0
    /\ blk = [pos |-> 0, st |-> "reading", entries |-> <<>>, locals |-> <<>>]
    /\ block_meta = None

\* at is the reader position at which ChunkData::read_options is called,
\* seeks are the positions sought so far
StartOfChunkData(pos) ==
    [pc |-> "start", at |-> pos, cur_pos |-> 0, offset |-> 0, meta |-> None, et |-> None,
     ty |-> None, blocks |-> <<>>, seeks |-> <<>>, err |-> ""]

IdleChunkData == cd = StartOfChunkData(0)

IdleTy == data = <<>> /\ IdleBlock /\ IdleChunkData

IdleQuery == from_through = None

----------------------------------------------------------------------------
(* The planner under varied time ranges, tenants and shard counts *)

MaxShard == 101

ShardCounts == {0, 2, MaxShard}

PlanStarts == {None} \cup {Some(t) : t \in {-86400001, -1, 999, 86400000}}

PlanEnds == {None} \cup {Some(t) : t \in {-1, 999, 86399999, 172800005}}

PlanDurations == {None, Some(1000), Some(90000000)}

PlanSinces == {None, Some(5000)}

Nows == {3600999, 86400500}

PlanStore ==
    {Pair(LabelKey(<<"0", "0">>, t, d, AppN.key, B64Sha256(AppN.value), sid), Some(AppN.value)) :
        t \in {T1, T2}, d \in {Str1("0"), Str1("1")}, sid \in {S1}}
    \cup {Pair(LabelKey(<<"0", "1">>, T1, Str1("0"), AppN.key, B64Sha256(AppN.value), S2),
               Some(AppN.value))}

InitPlan ==
    /\ b \in [time_range : [start : PlanStarts, end : PlanEnds,
                            since : PlanSinces, duration : PlanDurations],
              query : {<<AppN>>},
              tenant : {T1, T2},
              shard : ShardCounts,
              disable_broad_queries : {FALSE}]
    /\ now \in Nows
    /\ db = PlanStore
    /\ IdleInspect
    /\ IdleParse
    /\ IdleExec
    /\ IdleTy
    /\ IdleQuery

SpecPlan == InitPlan /\ [][InspectNext]_vars

----------------------------------------------------------------------------
(* Claims about the planner *)

Index_ == <<"i", "n", "d", "e", "x", "_">>

Logs == <<":", "l", "o", "g", "s", ":">>

\* the mathematical floor of the day number of a time in ms
FloorDay(ms) == Timestamp(ms) \div DaySecs

\* C6: get_buckets produces exactly one bucket for each day number d with
\* floor(start_seconds / 86400) <= d <= floor(end_seconds / 86400), in
\* increasing d, with table_name "index_" + d and hash_key tenant + ":d" + d.
C6_BucketPerFloorDay ==
    pc # "get_buckets" =>
        LET n == Max(0, FloorDay(end) - FloorDay(start) + 1)
        IN  /\ Len(buckets) = n
            /\ \A i \in 1..n :
                 LET d == FloorDay(start) + i - 1
                 IN  /\ buckets[i].table_name = Index_ \o Dec(d)
                     /\ buckets[i].hash_key = b.tenant \o <<":", "d">> \o Dec(d)

\* C7: for start <= end every bucket has 0 <= from_ms <= through_ms <=
\* 86_400_000 as u32 values, the first from_ms is the offset of start in its
\* day, the last through_ms is the offset of end in its day, and every other
\* bound is 0 or 86_400_000.
C7_BucketBounds ==
    (pc # "get_buckets" /\ start <= end) =>
        LET n == Len(buckets)
        IN  /\ n >= 1
            /\ \A i \in 1..n :
                 /\ U32Le(buckets[i].from, buckets[i].through)
                 /\ U32Le(buckets[i].through, AsU32(DayMs))
                 /\ i > 1 => buckets[i].from = <<0, 0>>
                 /\ i < n => buckets[i].through = AsU32(DayMs)
            /\ buckets[1].from = AsU32(start % DayMs)
            /\ buckets[n].through = AsU32(end % DayMs)

\* i as exactly two decimal digits
TwoDigits(i) == <<Digits[((i \div 10) % 10) + 1], Digits[(i % 10) + 1]>>

\* the queries of calc_queries for the predicate processed last, with the
\* shard index rendered by Shard(_)
LabelQueriesAre(Shard(_)) ==
    LET kv == b.query[kv_idx]
    IN  /\ Len(queries) = Len(buckets) * b.shard
        /\ \A j \in 1..Len(buckets) : \A i \in 0..(b.shard - 1) :
             LET q == queries[(j - 1) * b.shard + i + 1]
             IN  /\ q.hash_value = Shard(i) \o <<":">> \o buckets[j].hash_key
                                     \o Logs \o kv.key
                 /\ Len(q.hash_value) > 0
                 /\ q.range_value_prefix = B64Sha256(kv.value) \o <<NUL>>
                 /\ q.range_value_prefix[Len(q.range_value_prefix)] = NUL
                 /\ q.range_value_start = <<>>
                 /\ q.value_equal = kv.value

\* C8 as stated: for each (bucket, predicate) calc_queries emits exactly
\* shard_count queries, one per shard i, with hash_value = two-digit i + ":"
\* + hash_key + ":logs:" + label, range_value_prefix = digest + NUL, empty
\* range_value_start and value_equal = value.
C8_TwoDigitShard ==
    (pc = "predicates" /\ kv_idx > 0) => LabelQueriesAre(TwoDigits)

AtLeastTwoDigits(i) == IF i < 100 THEN TwoDigits(i) ELSE Dec(i)

\* C8 amended: as C8, the shard index being rendered in decimal, zero padded
\* to at least two digits (three digits from shard 100 on).
C8_PaddedShard ==
    (pc = "predicates" /\ kv_idx > 0) => LabelQueriesAre(AtLeastTwoDigits)

C8_Witness ==
    /\ pc = "predicates"
    /\ kv_idx > 0
    /\ Len(buckets) >= 2
    /\ b.shard >= 100
    /\ Len(queries) = Len(buckets) * b.shard

\* C9: calc_queries_for_serires emits |buckets| x |series_ids| queries, one
\* per (bucket, series id S), with hash_value = hash_key + ":" + S, empty
\* range_value_prefix and value_equal, and range_value_start the eight
\* lowercase hex characters of the u32 bucket.from, big endian.
C9_SeriesQueries ==
    pc = "chunk_refs" =>
        /\ Len(queries) = Len(buckets) * Cardinality(series_ids)
        /\ \A j \in 1..Len(buckets) : \A id \in series_ids :
             Cardinality({k \in 1..Len(queries) :
                 /\ queries[k].hash_value = buckets[j].hash_key \o <<":">> \o id
                 /\ queries[k].table_name = buckets[j].table_name
                 /\ queries[k].range_value_prefix = <<>>
                 /\ queries[k].value_equal = <<>>
                 /\ LET t == queries[k].range_value_start
                    IN  /\ Len(t) = 8
                        /\ \A c \in 1..8 : t[c] \in Range(HexDigits)
                        /\ HexValue(SubSeq(t, 1, 4), 0) = buckets[j].from[1]
                        /\ HexValue(SubSeq(t, 5, 8), 0) = buckets[j].from[2]}) = 1

C9_Witness ==
    /\ pc = "chunk_refs"
    /\ Len(buckets) >= 2
    /\ Cardinality(series_ids) >= 2
    /\ \E j \in 1..Len(buckets) : buckets[j].from[2] > 255
    /\ Len(queries) = Len(buckets) * 2

----------------------------------------------------------------------------
(* parse_chunk_time_range_value on every short range value *)

MaxRvLen == 6

RvAlphabet == {NUL, "3", "8", "a"}

RECURSIVE StringsUpTo(_, _)
\* the strings over an alphabet of at most n bytes
StringsUpTo(alphabet, n) ==
    IF n = 0 THEN {<<>>}
    ELSE LET shorter == StringsUpTo(alphabet, n - 1)
         IN  shorter \cup {Append(t, c) : t \in shorter, c \in alphabet}

IdleBolt ==
    /\ b = [time_range |-> [start |-> None, end |-> None, since |-> None,
                            duration |-> None],
            query |-> <<>>, tenant |-> T1, shard |-> 1,
            disable_broad_queries |-> FALSE]
    /\ now = 0
    /\ db = {}

InitParse ==
    /\ rv \in StringsUpTo(RvAlphabet, MaxRvLen)
    /\ parsed = None
    /\ IdleBolt
    /\ IdleInspect
    /\ IdleExec
    /\ IdleTy
    /\ IdleQuery

Parse ==
    /\ parsed = None
    /\ parsed' = Some(parse_chunk_time_range_value(rv))
    /\ UNCHANGED <<b, now, db, pc, buckets, start, end, kv_idx, series_ids,
                   unique_sets, queries, entries, result, chunk_refs, rv, runs>>
    /\ UNCHANGED ty_vars
    /\ UNCHANGED query_vars

SpecParse == InitParse /\ [][Parse]_vars

\* the positions of the NUL bytes of rv
NulsOfRv == {i \in 1..Len(rv) : rv[i] = NUL}

\* the position of the k-th NUL of rv; 0 before the first, Len + 1 after the last
NulOfRv(k) ==
    IF k = 0 THEN 0
    ELSE IF k > Cardinality(NulsOfRv) THEN Len(rv) + 1
    ELSE CHOOSE i \in NulsOfRv : Cardinality({j \in NulsOfRv : j < i}) = k - 1

\* the k-th NUL separated component of rv, counted from 0
ComponentOfRv(k) == SubSeq(rv, NulOfRv(k) + 1, NulOfRv(k + 1) - 1)

\* C10: parse_chunk_time_range_value fails unless the range value has 5 NUL
\* separated components; then it returns components[2] when components[3] is
\* "3", components[1] when it is "8", and fails for any other components[3].
C10_ParseRangeValue ==
    parsed # None =>
        LET r == parsed[1]
        IN  IF Cardinality(NulsOfRv) + 1 # 5 THEN ~r.ok
            ELSE IF ComponentOfRv(3) = <<"3">> THEN r.ok /\ r.id = ComponentOfRv(2)
            ELSE IF ComponentOfRv(3) = <<"8">> THEN r.ok /\ r.id = ComponentOfRv(1)
            ELSE ~r.ok

C10_Witness ==
    /\ parsed # None
    /\ parsed[1].ok
    /\ parsed[1].id = <<"a">>
    /\ ComponentOfRv(3) = <<"8">>

----------------------------------------------------------------------------
(* get_entries_from_queries under both strategies *)

MaxQueries == 2

\* the bucket of day 0 for tenant T1 and the range [1000, 5000]
ExecBucket == BucketOf(T1, 0, 1000, 5000)

ExecQueries ==
    {LabelQuery(0, ExecBucket, AppN),
     LabelQuery(0, ExecBucket, EnvP),
     SeriesQuery(ExecBucket, S1),
     [LabelQuery(0, ExecBucket, AppN) EXCEPT !.range_value_prefix = <<>>,
                                             !.value_equal = <<>>]}

Shard00 == <<"0", "0">>

Day0 == <<"0">>

HashOfN == B64Sha256(<<"n">>)

HashOfX == B64Sha256(<<"x">>)

HashOfP == B64Sha256(<<"p">>)

ExecUniverse ==
    {Pair(LabelKey(Shard00, T1, Day0, AppN.key, HashOfN, S1), Some(<<"n">>)),
     Pair(LabelKey(Shard00, T1, Day0, AppN.key, HashOfX, S2), Some(<<"n">>)),
     Pair(LabelKey(Shard00, T1, Day0, AppN.key, HashOfN, S3), Some(<<"x">>)),
     Pair(LabelKey(Shard00, T1, Day0, AppN.key, HashOfN, S2), None),
     Pair(LabelKey(Shard00, T1, Day0, EnvP.key, HashOfP, S1), Some(<<"p">>)),
     Pair(LabelKey(Shard00, T1, Day0, <<"a", "p", "p", "x">>, HashOfN, S1), Some(<<"n">>)),
     Pair(ChunkKey(T1, Day0, S1, <<"0", "0", "0", "0", "0", "3", "e", "7">>,
                   <<"c", "1">>), Some(<<>>)),
     Pair(ChunkKey(T1, Day0, S1, <<"0", "0", "0", "0", "1", "3", "8", "8">>,
                   <<"c", "2">>), Some(<<>>))}

SeqsUpTo(set, n) == UNION {[1..k -> set] : k \in 0..n}

InitExec ==
    /\ db \in SUBSET ExecUniverse
    /\ queries \in SeqsUpTo(ExecQueries, MaxQueries)
    /\ runs = [broad |-> None, narrow |-> None]
    /\ b = [time_range |-> [start |-> None, end |-> None, since |-> None,
                            duration |-> None],
            query |-> <<>>, tenant |-> T1, shard |-> 1,
            disable_broad_queries |-> FALSE]
    /\ now = 0
    /\ pc = "get_buckets"
    /\ buckets = <<>>
    /\ start = 0
    /\ end = 0
    /\ kv_idx = 0
    /\ series_ids = {}
    /\ unique_sets = <<>>
    /\ entries = <<>>
    /\ result = <<>>
    /\ chunk_refs = <<>>
    /\ IdleParse
    /\ IdleTy
    /\ IdleQuery

\* the outcome of get_entries_from_queries, with the share of every query
Outcome(disable_broad_queries) ==
    [entries |-> get_entries_from_queries(disable_broad_queries, db, queries),
     pages |-> PagesOf(disable_broad_queries, db, queries)]

\* get_entries_from_queries(false, ...)
RunBroad ==
    /\ runs.broad = None
    /\ runs' = [runs EXCEPT !.broad = Some(Outcome(FALSE))]
    /\ UNCHANGED <<b, now, db, pc, buckets, start, end, kv_idx, series_ids,
                   unique_sets, queries, entries, result, chunk_refs, rv, parsed>>
    /\ UNCHANGED ty_vars
    /\ UNCHANGED query_vars

\* get_entries_from_queries(true, ...)
RunNarrow ==
    /\ runs.narrow = None
    /\ runs' = [runs EXCEPT !.narrow = Some(Outcome(TRUE))]
    /\ UNCHANGED <<b, now, db, pc, buckets, start, end, kv_idx, series_ids,
                   unique_sets, queries, entries, result, chunk_refs, rv, parsed>>
    /\ UNCHANGED ty_vars
    /\ UNCHANGED query_vars

ExecNext == RunBroad \/ RunNarrow

SpecExec == InitExec /\ [][ExecNext]_vars

\* the (range_value, value) of an entry
RangeAndValue(e) == <<e.range_value, e.value>>

\* how often the (range_value, value) x occurs among the entries es
CountOf(x, es) == Cardinality({i \in 1..Len(es) : RangeAndValue(es[i]) = x})

\* do two entry lists hold the same multiset of (range_value, value)
SameMultiset(es, fs) ==
    \A x \in {RangeAndValue(es[i]) : i \in 1..Len(es)}
               \cup {RangeAndValue(fs[i]) : i \in 1..Len(fs)} :
        CountOf(x, es) = CountOf(x, fs)

\* C1: get_entries_from_queries returns the same multiset of (range_value,
\* value) entries under the broad strategy as under the narrow strategy.
C1_BroadEqualsNarrow ==
    (runs.broad # None /\ runs.narrow # None) =>
        SameMultiset(runs.broad[1].entries, runs.narrow[1].entries)

\* C4: under the broad strategy every entry returned for a query with a
\* non-empty range_value_prefix has a range_value beginning with that prefix.
C4_BroadAppliesPrefix ==
    runs.broad # None =>
        \A i \in 1..Len(queries) :
            Len(queries[i].range_value_prefix) > 0 =>
                \A k \in 1..Len(runs.broad[1].pages[i]) :
                    StartsWith(runs.broad[1].pages[i][k].range_value,
                               queries[i].range_value_prefix)

\* s >= t in the byte order of Rust strings
LexGeq(s, t) ==
    \/ StartsWith(s, t)
    \/ \E k \in 1..Min(Len(s), Len(t)) :
           /\ SubSeq(s, 1, k - 1) = SubSeq(t, 1, k - 1)
           /\ CharCode(s[k]) > CharCode(t[k])

\* the query that query_pages is handed for queries[i] by a strategy
Handed(disable_broad_queries, i) ==
    IF disable_broad_queries THEN queries[i]
    ELSE [queries[i] EXCEPT !.range_value_prefix = <<>>]

\* what C22 asks of the entries a run returned for queries[i]
FiltersHold(run, disable_broad_queries, i) ==
    \A k \in 1..Len(run.pages[i]) :
        \E e \in {run.pages[i][k]} :
            \* the entry is the one of a stored key with a stored value
            /\ \E p \in db :
                   /\ p.key = queries[i].hash_value \o <<NUL>> \o e.range_value
                   /\ p.value = Some(e.value)
            /\ Len(queries[i].value_equal) > 0 => e.value = queries[i].value_equal
            /\ Len(queries[i].range_value_start) > 0 =>
                   LexGeq(e.range_value, queries[i].range_value_start)
            \* the scan prefix, which the entry records as its hash_value
            /\ e.hash_value =
                   IF Len(Handed(disable_broad_queries, i).range_value_prefix) > 0
                   THEN queries[i].hash_value \o <<NUL>>
                            \o Handed(disable_broad_queries, i).range_value_prefix
                   ELSE queries[i].hash_value \o <<NUL>>

\* C22: under either strategy every entry returned for a query comes from a
\* key with a stored value, its value equals value_equal when value_equal is
\* non-empty, its range_value is lexicographically at least range_value_start
\* when range_value_start is non-empty, and the scan prefix is hash_value and
\* NUL, followed by the range_value_prefix of the query handed to query_pages
\* when that is non-empty, and never by range_value_start.
C22_ValueAndStartFilters ==
    /\ runs.broad # None =>
           \A i \in 1..Len(queries) : FiltersHold(runs.broad[1], FALSE, i)
    /\ runs.narrow # None =>
           \A i \in 1..Len(queries) : FiltersHold(runs.narrow[1], TRUE, i)

\* is the pair p under the scan prefix hash_value NUL of the query
Scanned(p, query) == StartsWith(p.key, query.hash_value \o <<NUL>>)

\* both strategies ran; a query with a range_value_start got an entry while a
\* scanned key below the start was dropped; a query with a value_equal got an
\* entry while a scanned key without a value and one with another value
\* were dropped
C22_Witness ==
    /\ runs.broad # None
    /\ runs.narrow # None
    /\ \E i \in 1..Len(queries) :
           /\ Len(queries[i].range_value_start) > 0
           /\ Len(runs.broad[1].pages[i]) > 0
           /\ Len(runs.narrow[1].pages[i]) > 0
           /\ \E p \in db :
                  /\ Scanned(p, queries[i])
                  /\ p.value # None
                  /\ ~LexGeq(SubSeq(p.key, Len(queries[i].hash_value) + 2, Len(p.key)),
                             queries[i].range_value_start)
    /\ \E i \in 1..Len(queries) :
           /\ Len(queries[i].value_equal) > 0
           /\ Len(runs.broad[1].pages[i]) > 0
           /\ Len(runs.narrow[1].pages[i]) > 0
           /\ \E p \in db : Scanned(p, queries[i]) /\ p.value = None
           /\ \E p \in db :
                  /\ Scanned(p, queries[i])
                  /\ p.value # None
                  /\ p.value[1] # queries[i].value_equal

----------------------------------------------------------------------------
(* inspect over every store drawn from a small universe of index entries *)

MaxPreds == 2

HashOfJ == B64Sha256(<<"j">>)

\* chunk ids "tenant/fingerprint:from:to:checksum" around the range [1000, 5000]
CidUntilStart == <<"t", "1", "/", "1", "a", ":", "0", ":", "3", "e", "8", ":", "f", "f">>

CidFromEnd == <<"t", "1", "/", "1", "b", ":", "1", "3", "8", "8", ":", "2", "0", "0", "0", ":", "f", "f">>

CidAfterEnd == <<"t", "1", "/", "1", "c", ":", "1", "3", "8", "9", ":", "2", "0", "0", "0", ":", "f", "f">>

CidBeforeStart == <<"t", "2", "/", "2", "a", ":", "0", ":", "3", "e", "7", ":", "f", "f">>

Hex3e8 == <<"0", "0", "0", "0", "0", "3", "e", "8">>

Hex1388 == <<"0", "0", "0", "0", "1", "3", "8", "8">>

Hex2000 == <<"0", "0", "0", "0", "2", "0", "0", "0">>

InspectUniverse ==
    {Pair(LabelKey(Shard00, T1, Day0, AppN.key, HashOfN, S1), Some(<<"n">>)),
     Pair(LabelKey(Shard00, T1, Day0, AppN.key, HashOfN, S2), Some(<<"n">>)),
     Pair(LabelKey(Shard00, T1, Day0, EnvP.key, HashOfP, S1), Some(<<"p">>)),
     Pair(LabelKey(Shard00, T1, Day0, JobJ.key, HashOfJ, S2), Some(<<"j">>)),
     \* a label entry of four components only
     Pair(Shard00 \o <<":">> \o T1 \o <<":", "d", "0">> \o Logs \o JobJ.key
              \o <<NUL>> \o HashOfJ \o <<NUL>> \o S1 \o <<NUL, "8", NUL>>, Some(<<"j">>)),
     Pair(ChunkKey(T1, Day0, S1, Hex3e8, CidUntilStart), Some(<<>>)),
     Pair(ChunkKey(T1, Day0, S1, Hex2000, CidFromEnd), Some(<<>>)),
     Pair(ChunkKey(T1, Day0, S1, Hex2000, CidAfterEnd), Some(<<>>)),
     Pair(ChunkKey(T1, Day0, S2, Hex1388, CidBeforeStart), Some(<<>>))}

InspectQueries == UNION {[1..k -> {AppN, EnvP, JobJ}] : k \in 1..MaxPreds}

InitInspect ==
    /\ b \in [time_range : {[start |-> Some(1000), end |-> Some(5000),
                             since |-> None, duration |-> None]},
              query : InspectQueries,
              tenant : {T1},
              shard : {1},
              disable_broad_queries : BOOLEAN]
    /\ now = 0
    /\ db \in SUBSET InspectUniverse
    /\ IdleInspect
    /\ IdleParse
    /\ IdleExec
    /\ IdleTy
    /\ IdleQuery

SpecInspect == InitInspect /\ [][InspectNext]_vars

\* C2: after predicates p1..pn have been processed, series_ids is the
\* intersection of the n per-predicate series id sets; if any predicate
\* yields an empty set the set is empty.
C2_SeriesIdsIsIntersection ==
    (pc = "predicates" /\ kv_idx >= 1) =>
        series_ids = {x \in unique_sets[1] : \A i \in 1..kv_idx : x \in unique_sets[i]}

\* the unique_set the loop of inspect computes for one predicate
UniqueSetOf(kv) ==
    Range(ParseAll(get_entries_from_queries(b.disable_broad_queries, db,
                                            calc_queries(b.shard, buckets, kv))).ids)

RECURSIVE SeriesIdsAfter(_, _)
\* the accumulator after the loop has run over preds
SeriesIdsAfter(preds, acc) ==
    IF preds = <<>> THEN acc
    ELSE SeriesIdsAfter(Tail(preds), Accumulate(acc, UniqueSetOf(Head(preds))))

IndexOrders(n) == {f \in [1..n -> 1..n] : \A i \in 1..n : \E j \in 1..n : f[j] = i}

\* C3: the final series_ids set does not depend on the order of the
\* predicates: every permutation of b.query ends with the same set.
C3_OrderIndependent ==
    (pc = "predicates" /\ kv_idx = Len(b.query)) =>
        \A f \in IndexOrders(Len(b.query)) :
            SeriesIdsAfter([i \in 1..Len(b.query) |-> b.query[f[i]]], {}) = series_ids

\* the [from, to] bounds written in a chunk id
BoundsOf(r) ==
    LET parts == Split(Split(r, "/")[2], ":")
    IN  [from |-> from_str_radix(parts[2], TRUE, 64).val,
         to |-> from_str_radix(parts[3], TRUE, 64).val]

\* C5: a parsed chunk id with bounds [from, to] is dropped from the final
\* result if and only if to < start_ms or from > end_ms; every other one is
\* kept, in order.
C5_ChunkRefFilter ==
    pc = "done" =>
        LET kept == SelectSeq(result, LAMBDA r :
                        ~(BoundsOf(r).to < start \/ BoundsOf(r).from > end))
        IN  /\ Len(chunk_refs) = Len(kept)
            /\ \A i \in 1..Len(kept) :
                 /\ chunk_refs[i].from = BoundsOf(kept[i]).from
                 /\ chunk_refs[i].to = BoundsOf(kept[i]).to
                 /\ chunk_refs[i].user_id = Split(kept[i], "/")[1]

C5_Witness ==
    /\ pc = "done"
    /\ \E i \in 1..Len(result) : BoundsOf(result[i]).to < start
    /\ \E i \in 1..Len(result) : BoundsOf(result[i]).from > end
    /\ \E i \in 1..Len(result) : BoundsOf(result[i]).to = start
    /\ \E i \in 1..Len(result) : BoundsOf(result[i]).from = end
    /\ Len(chunk_refs) = 2

----------------------------------------------------------------------------
(* inspect over stores that hold malformed index entries and chunk ids *)

\* a chunk entry of five components whose kind is "9"
ChunkKeyOfKind9 ==
    T1 \o <<":", "d", "0", ":">> \o S1
       \o <<NUL>> \o Hex2000 \o <<NUL, NUL>> \o CidFromEnd \o <<NUL, "9", NUL>>

\* a chunk id without "/"
CidNoSlash == <<"t", "1", ":", "1", "a", ":", "0", ":", "3", "e", "8", ":", "f", "f">>

\* a chunk id of two ":" separated parts
CidTwoParts == <<"t", "1", "/", "1", "a", ":", "0">>

\* a chunk id whose fingerprint is not hexadecimal
CidNotHex == <<"t", "1", "/", "z", "z", ":", "0", ":", "3", "e", "8", ":", "f", "f">>

\* a chunk id of tenant t2 whose bounds lie in the range [1000, 5000]
CidOtherTenant == <<"t", "2", "/", "2", "b", ":", "3", "e", "8", ":", "1", "3", "8", "8", ":", "f", "f">>

FaultyUniverse ==
    {Pair(LabelKey(Shard00, T1, Day0, AppN.key, HashOfN, S1), Some(<<"n">>)),
     Pair(LabelKey(Shard00, T1, Day0, AppN.key, HashOfN, S2), Some(<<"n">>)),
     Pair(LabelKey(Shard00, T1, Day0, EnvP.key, HashOfP, S1), Some(<<"p">>)),
     Pair(LabelKey(Shard00, T1, Day0, JobJ.key, HashOfJ, S2), Some(<<"j">>)),
     \* a label entry of four components only
     Pair(Shard00 \o <<":">> \o T1 \o <<":", "d", "0">> \o Logs \o JobJ.key
              \o <<NUL>> \o HashOfJ \o <<NUL>> \o S1 \o <<NUL, "8", NUL>>, Some(<<"j">>)),
     Pair(ChunkKey(T1, Day0, S1, Hex3e8, CidUntilStart), Some(<<>>)),
     Pair(ChunkKeyOfKind9, Some(<<>>)),
     Pair(ChunkKey(T1, Day0, S1, Hex1388, CidNoSlash), Some(<<>>)),
     Pair(ChunkKey(T1, Day0, S2, Hex1388, CidTwoParts), Some(<<>>)),
     Pair(ChunkKey(T1, Day0, S2, Hex2000, CidNotHex), Some(<<>>)),
     Pair(ChunkKey(T1, Day0, S1, Hex1388, CidOtherTenant), Some(<<>>))}

FaultyQueries == {<<AppN>>, <<EnvP>>, <<JobJ, AppN>>, <<AppN, EnvP>>}

InitFaulty ==
    /\ b \in [time_range : {[start |-> Some(1000), end |-> Some(5000),
                             since |-> None, duration |-> None]},
              query : FaultyQueries,
              tenant : {T1},
              shard : {1},
              disable_broad_queries : BOOLEAN]
    /\ now = 0
    /\ db \in SUBSET FaultyUniverse
    /\ IdleInspect
    /\ IdleParse
    /\ IdleExec
    /\ IdleTy
    /\ IdleQuery

SpecFaulty == InitFaulty /\ [][InspectNext]_vars

\* the positions of the NUL bytes of a range value
NulsOf(range_value) == {i \in 1..Len(range_value) : range_value[i] = NUL}

\* the position of the k-th NUL of a range value
NthNul(range_value, k) ==
    CHOOSE i \in NulsOf(range_value) :
        Cardinality({j \in NulsOf(range_value) : j < i}) = k - 1

\* no series id or chunk id can be extracted: the range value has not five
\* components, or its kind is neither "3" nor "8"
FailsExtraction(range_value) ==
    \/ Cardinality(NulsOf(range_value)) # 4
    \/ SubSeq(range_value, NthNul(range_value, 3) + 1, NthNul(range_value, 4) - 1)
           \notin {<<"3">>, <<"8">>}

\* C11: when an index entry retained in stage A (for any predicate) or in
\* stage B fails the series id / chunk id extraction, inspect ends with an
\* error: no chunk id list and no chunk references are produced, the
\* predicates after the failing one are not processed, and nothing happens
\* after the error.
C11_ExtractionFailureEndsInspect ==
    /\ [](  (\E i \in 1..Len(entries) : FailsExtraction(entries[i].range_value))
            => /\ pc = "error"
               /\ result = <<>>
               /\ chunk_refs = <<>>
               /\ Len(unique_sets) = kv_idx  )
    /\ [][pc # "error"]_vars

C11_Witness ==
    /\ pc = "error"
    /\ kv_idx = 0
    /\ Len(b.query) = 2
    /\ \E i \in 1..Len(entries) : FailsExtraction(entries[i].range_value)
    /\ \E i \in 1..Len(entries) : ~FailsExtraction(entries[i].range_value)

\* is part a non-empty string of hexadecimal digits
IsHex(part) ==
    /\ part # <<>>
    /\ \A i \in 1..Len(part) : part[i] \in Range(HexDigits) \cup Range(SubSeq(Upper, 1, 6))

\* does a chunk id match "{tenant}/{fingerprint}:{from}:{to}:{checksum}"
MatchesChunkId(r) ==
    /\ \E i \in 1..Len(r) : r[i] = "/"
    /\ LET parts == Split(Split(r, "/")[2], ":")
       IN  /\ Len(parts) >= 4
           /\ \A k \in 1..4 : IsHex(parts[k])

\* C12: a chunk id extracted in stage B that does not match
\* "{tenant}/{fingerprint_hex}:{from_ms_hex}:{to_ms_hex}:{checksum_hex}"
\* makes inspect end with an error value: never a crash, never a skipped
\* reference.
C12_BadChunkIdIsError ==
    (pc \in {"done", "error", "panic"}
        /\ \E i \in 1..Len(result) : ~MatchesChunkId(result[i]))
    => pc = "error"

\* C13: every ChunkRef of the final result of an inspection for tenant T has
\* user_id = T.
C13_TenantIsolation ==
    pc = "done" => \A i \in 1..Len(chunk_refs) : chunk_refs[i].user_id = b.tenant

----------------------------------------------------------------------------
(* Readers: ty.rs, and the Read / VarIntReader calls it makes.  A read      *)
(* returns [ok |-> TRUE, val, pos] with the reader position after it, or    *)
(* [ok |-> FALSE, err].                                                     *)

\* the continuation bit of a varint byte
MSB == 128

\* VarInt::varint_max_size of the 64 bit integers
VarintMaxSize == 10

\* (1e9 as i64)
NanosPerSec == 1000000000

\* char::REPLACEMENT_CHARACTER
ReplacementChar == 65533

Err(kind) == [ok |-> FALSE, err |-> kind]

\* Read::read of as many of the n bytes as the stream still holds
read_available(buf, pos, n) ==
    [ok |-> TRUE, val |-> SubSeq(buf, pos + 1, Min(pos + n, Len(buf))),
     pos |-> Min(pos + n, Len(buf))]

\* Read::read_exact of n bytes at pos: UnexpectedEof when fewer remain
read_exact(buf, pos, n) ==
    IF pos + n > Len(buf) THEN Err("Io")
    ELSE [ok |-> TRUE, val |-> SubSeq(buf, pos + 1, pos + n), pos |-> pos + n]

RECURSIVE VarIntProcessor(_, _, _)
\* the loop of read_varint over the bytes p pushed so far: it ends on a byte
\* without MSB; the end of the stream and an eleventh byte are errors
VarIntProcessor(buf, pos, p) ==
    IF p # <<>> /\ p[Len(p)] < MSB THEN [ok |-> TRUE, val |-> p, pos |-> pos]
    ELSE IF pos >= Len(buf) THEN Err("Io")
    ELSE IF Len(p) >= VarintMaxSize THEN Err("Io")
    ELSE VarIntProcessor(buf, pos + 1, Append(p, buf[pos + 1]))

RECURSIVE decode_var(_)
\* u64::decode_var: seven bits a byte, the low bits first
decode_var(p) ==
    IF p = <<>> THEN 0 ELSE (Head(p) % MSB) + MSB * decode_var(Tail(p))

\* zigzag_decode: (from >> 1) ^ -(from & 1)
zigzag_decode(from) ==
    IF from % 2 = 0 THEN from \div 2 ELSE -((from + 1) \div 2)

\* read_varint that takes the unsigned value for a signed type
read_varint_unsigned(buf, pos, signed) ==
    LET p == VarIntProcessor(buf, pos, <<>>)
    IN  IF ~p.ok THEN p
        ELSE [ok |-> TRUE, val |-> decode_var(p.val), pos |-> p.pos]

\* VarIntReader::read_varint::<u64 | usize> (signed = FALSE) and ::<i64>
read_varint(buf, pos, signed) ==
    LET p == VarIntProcessor(buf, pos, <<>>)
    IN  IF ~p.ok THEN p
        ELSE [ok |-> TRUE,
              val |-> IF signed THEN zigzag_decode(decode_var(p.val))
                      ELSE decode_var(p.val),
              pos |-> p.pos]

\* NaiveDateTime::from_timestamp(secs, nsecs)
from_timestamp(secs, nsecs) == [secs |-> secs, nanos |-> nsecs]

\* String::from_utf8_lossy over bytes that are ASCII or lone continuation
\* bytes (0x80..0xBF): every byte above 0x7F is replaced
from_utf8_lossy(bytes) ==
    [i \in 1..Len(bytes) |-> IF bytes[i] < 128 THEN bytes[i] ELSE ReplacementChar]

\* UnorderedBlockEntry::read_options; ts and sz are its locals
UnorderedBlockEntry_read(buf, pos) ==
    LET ts == read_varint(buf, pos, TRUE)
    IN  IF ~ts.ok THEN ts
        ELSE LET sz == read_varint(buf, ts.pos, FALSE)
             IN  IF ~sz.ok THEN sz
                 ELSE LET vec == read_exact(buf, sz.pos, sz.val)
                      IN  IF ~vec.ok THEN vec
                          ELSE [ok |-> TRUE,
                                val |-> [time |-> from_timestamp(TruncDiv(ts.val, NanosPerSec), 0),
                                         line |-> from_utf8_lossy(vec.val)],
                                pos |-> vec.pos,
                                ts |-> ts.val,
                                sz |-> sz.val]

RECURSIVE UnorderedBlockLoop(_, _, _, _)
\* the loop of UnorderedBlock::read_options with n entries still to read
UnorderedBlockLoop(buf, pos, n, read) ==
    IF n = 0 THEN [ok |-> TRUE, val |-> [entries |-> read], pos |-> pos]
    ELSE LET entry == UnorderedBlockEntry_read(buf, pos)
         IN  IF ~entry.ok THEN entry
             ELSE UnorderedBlockLoop(buf, entry.pos, n - 1, Append(read, entry.val))

\* UnorderedBlock::read_options
UnorderedBlock_read(buf, pos, num_entries) == UnorderedBlockLoop(buf, pos, num_entries, <<>>)

\* BlockMeta::read_options; the locals mint and maxt are the varints read
BlockMeta_read(buf, pos) ==
    LET num_entries == read_varint(buf, pos, FALSE)
    IN  IF ~num_entries.ok THEN num_entries ELSE
    LET mint == read_varint(buf, num_entries.pos, TRUE)
    IN  IF ~mint.ok THEN mint ELSE
    LET maxt == read_varint(buf, mint.pos, TRUE)
    IN  IF ~maxt.ok THEN maxt ELSE
    LET offset == read_varint(buf, maxt.pos, FALSE)
    IN  IF ~offset.ok THEN offset ELSE
    LET uncompressed_size == read_varint(buf, offset.pos, FALSE)
    IN  IF ~uncompressed_size.ok THEN uncompressed_size ELSE
    LET compressed_size == read_varint(buf, uncompressed_size.pos, FALSE)
    IN  IF ~compressed_size.ok THEN compressed_size ELSE
        [ok |-> TRUE,
         val |-> [num_entries |-> num_entries.val,
                  mint |-> from_timestamp(TruncDiv(mint.val, NanosPerSec), 0),
                  maxt |-> from_timestamp(TruncDiv(maxt.val, NanosPerSec), 0),
                  offset |-> offset.val,
                  uncompressed_size |-> uncompressed_size.val,
                  compressed_size |-> compressed_size.val],
         pos |-> compressed_size.pos,
         mint |-> mint.val,
         maxt |-> maxt.val]

----------------------------------------------------------------------------
(* UnorderedBlock::read_options and BlockMeta::read_options on short streams *)

MaxData == 6

MaxEntries == 2

\* the longest varint of the streams, in bytes
MaxVarint == 4

ByteAlphabet == {0, 1, 2, 129}

\* the streams without MaxVarint continuation bytes in a row
ShortStreams ==
    {s \in StringsUpTo(ByteAlphabet, MaxData) :
        \A i \in 1..(Len(s) - MaxVarint + 1) :
            \E j \in i..(i + MaxVarint - 1) : s[j] < MSB}

RECURSIVE EncodeVarint(_)
\* the bytes of the unsigned varint of u
EncodeVarint(u) ==
    IF u < MSB THEN <<u>> ELSE <<MSB + (u % MSB)>> \o EncodeVarint(u \div MSB)

\* entries whose timestamps lie a second and more from the epoch, with the
\* line <<1>>: 1000000001 ns, -1000000001 ns, 999999999 ns, -999999999 ns
LateStreams ==
    {EncodeVarint(2000000002) \o <<1, 1>>,
     EncodeVarint(2000000001) \o <<1, 1>>,
     EncodeVarint(1999999998) \o <<1, 1>>,
     EncodeVarint(1999999997) \o <<1, 1>> \o EncodeVarint(2000000002) \o <<0>>}

InitBlock ==
    /\ data \in ShortStreams \cup LateStreams
    /\ args \in 0..MaxEntries
    /\ blk = [pos |-> 0, st |-> "reading", entries |-> <<>>, locals |-> <<>>]
    /\ block_meta = None
    /\ IdleChunkData
    /\ IdleBolt
    /\ IdleInspect
    /\ IdleParse
    /\ IdleExec
    /\ IdleQuery

\* one iteration of the loop of UnorderedBlock::read_options
ReadEntry ==
    /\ blk.st = "reading"
    /\ Len(blk.entries) < args
    /\ \E entry \in {UnorderedBlockEntry_read(data, blk.pos)} :
         blk' = IF entry.ok
                THEN [pos |-> entry.pos,
                      st |-> "reading",
                      entries |-> Append(blk.entries, entry.val),
                      locals |-> Append(blk.locals,
                                        [at |-> blk.pos, ts |-> entry.ts, sz |-> entry.sz])]
                ELSE [blk EXCEPT !.st = "error"]
    /\ UNCHANGED <<data, args, block_meta, cd>>
    /\ UNCHANGED bolt_vars
    /\ UNCHANGED query_vars

\* the end of the loop: Ok(UnorderedBlock { entries })
ReturnBlock ==
    /\ blk.st = "reading"
    /\ Len(blk.entries) = args
    /\ blk' = [blk EXCEPT !.st = "done"]
    /\ UNCHANGED <<data, args, block_meta, cd>>
    /\ UNCHANGED bolt_vars
    /\ UNCHANGED query_vars

\* BlockMeta::read_options at the start of the stream
ReadBlockMeta ==
    /\ block_meta = None
    /\ block_meta' = Some(BlockMeta_read(data, 0))
    /\ UNCHANGED <<data, args, blk, cd>>
    /\ UNCHANGED bolt_vars
    /\ UNCHANGED query_vars

BlockNext == ReadEntry \/ ReturnBlock \/ ReadBlockMeta

SpecBlock == InitBlock /\ [][BlockNext]_vars

\* the number of bytes of the varint that begins after position pos
VarLenAt(buf, pos) ==
    CHOOSE k \in 1..(Len(buf) - pos) :
        buf[pos + k] < MSB /\ \A j \in 1..(k - 1) : buf[pos + j] >= MSB

RECURSIVE Base128(_, _, _)
\* the base-128 value of the k bytes after position pos, the low digit first
Base128(buf, pos, k) ==
    IF k = 0 THEN 0 ELSE (buf[pos + 1] % 128) + 128 * Base128(buf, pos + 1, k - 1)

\* the unsigned varint that begins after position pos
UnsignedAt(buf, pos) == Base128(buf, pos, VarLenAt(buf, pos))

\* the position after the varint that begins after position pos
AfterVarint(buf, pos) == pos + VarLenAt(buf, pos)

\* C15 as stated: the signed varint timestamp of a block entry, and mint and
\* maxt of a BlockMeta, are the unsigned base-128 value reinterpreted as a
\* two's-complement i64, without zig-zag (below 2^63 that is the unsigned
\* value itself).
C15_SignedIsUnsigned ==
    /\ \A k \in 1..Len(blk.locals) :
         blk.locals[k].ts = UnsignedAt(data, blk.locals[k].at)
    /\ (block_meta # None /\ block_meta[1].ok) =>
         /\ block_meta[1].mint = UnsignedAt(data, AfterVarint(data, 0))
         /\ block_meta[1].maxt = UnsignedAt(data, AfterVarint(data, AfterVarint(data, 0)))

\* is u the zig-zag code of the signed n: (n << 1) ^ (n >> 63)
IsZigZagOf(u, n) == IF n >= 0 THEN u = 2 * n ELSE u = -2 * n - 1

\* C15 amended: the signed varint timestamp of a block entry, and mint and
\* maxt of a BlockMeta, are the zig-zag decoding of the unsigned base-128
\* value.
C15_SignedIsZigZag ==
    /\ \A k \in 1..Len(blk.locals) :
         IsZigZagOf(UnsignedAt(data, blk.locals[k].at), blk.locals[k].ts)
    /\ (block_meta # None /\ block_meta[1].ok) =>
         /\ IsZigZagOf(UnsignedAt(data, AfterVarint(data, 0)), block_meta[1].mint)
         /\ IsZigZagOf(UnsignedAt(data, AfterVarint(data, AfterVarint(data, 0))),
                       block_meta[1].maxt)

C15_Witness ==
    /\ Len(blk.locals) = 2
    /\ blk.locals[1].ts < 0
    /\ blk.locals[2].ts > 0
    /\ block_meta # None
    /\ block_meta[1].ok
    /\ block_meta[1].mint < 0
    /\ block_meta[1].maxt > 0

\* C16: the decoded time of a block entry is the encoded nanosecond count
\* exactly, and entries whose encoded timestamps differ decode to different
\* times.
C16_TimeKeepsNanoseconds ==
    /\ \A k \in 1..Len(blk.entries) :
         blk.entries[k].time.secs * NanosPerSec + blk.entries[k].time.nanos
             = blk.locals[k].ts
    /\ \A j, k \in 1..Len(blk.entries) :
         blk.locals[j].ts # blk.locals[k].ts => blk.entries[j].time # blk.entries[k].time

RECURSIVE EntryEnd(_)
\* the position after the k-th entry stored in data: a varint timestamp, a
\* varint length L and L bytes, one entry after the other
EntryEnd(k) ==
    IF k = 0 THEN 0
    ELSE LET length_at == AfterVarint(data, EntryEnd(k - 1))
         IN  AfterVarint(data, length_at) + UnsignedAt(data, length_at)

\* does a varint begin after position pos and end within buf
HasVarint(buf, pos) == \E k \in 1..Min(Len(buf) - pos, VarintMaxSize) : buf[pos + k] < MSB

\* is a whole entry stored after position pos
HasEntry(buf, pos) ==
    /\ HasVarint(buf, pos)
    /\ HasVarint(buf, AfterVarint(buf, pos))
    /\ AfterVarint(buf, AfterVarint(buf, pos)) + UnsignedAt(buf, AfterVarint(buf, pos))
           <= Len(buf)

----------------------------------------------------------------------------
(* Meta, decompress and ChunkData: ty.rs *)

\* read_le::<u32>: the pair <<hi, lo>> of the 16-bit halves
read_u32_le(buf, pos) ==
    LET bytes == read_exact(buf, pos, 4)
    IN  IF ~bytes.ok THEN bytes
        ELSE [ok |-> TRUE,
              val |-> <<bytes.val[4] * 256 + bytes.val[3], bytes.val[2] * 256 + bytes.val[1]>>,
              pos |-> bytes.pos]

RECURSIVE BigEndian(_, _)
\* the big-endian value of bytes, from the value acc of the bytes before them
BigEndian(bytes, acc) ==
    IF bytes = <<>> THEN acc ELSE BigEndian(Tail(bytes), acc * 256 + Head(bytes))

\* read_be::<u64>
read_u64_be(buf, pos) ==
    LET bytes == read_exact(buf, pos, 8)
    IN  IF ~bytes.ok THEN bytes
        ELSE [ok |-> TRUE, val |-> BigEndian(bytes.val, 0), pos |-> bytes.pos]

\* read_le::<u8>
read_u8(buf, pos) ==
    LET bytes == read_exact(buf, pos, 1)
    IN  IF ~bytes.ok THEN bytes
        ELSE [ok |-> TRUE, val |-> bytes.val[1], pos |-> bytes.pos]

\* the big-endian bytes of 0x012EE56A_u32
MagicBytes == <<1, 46, 229, 106>>

\* the bytes of 3_u8
VersionBytes == <<3>>

\* binread::error::magic: the bytes read must be the expected ones
magic(buf, pos, expected) ==
    LET bytes == read_exact(buf, pos, Len(expected))
    IN  IF ~bytes.ok THEN bytes
        ELSE IF bytes.val # expected THEN Err("BadMagic")
        ELSE [ok |-> TRUE, val |-> expected, pos |-> bytes.pos]

\* enum EncType, in the order of its discriminants 0..9
EncTypes == <<"EncNone", "EncGZIP", "EncDumb", "EncLZ4_64k", "EncSnappy",
              "EncLZ4_256k", "EncLZ4_1M", "EncLZ4_4M", "EncFlate", "EncZstd">>

\* EncType::from_u8
EncType_from_u8(et) == IF et < Len(EncTypes) THEN Some(EncTypes[et + 1]) ELSE None

RECURSIVE MetaLoop(_, _, _, _)
\* the collect of num_blocks BlockMeta reads, the first Err returned
MetaLoop(buf, pos, n, read) ==
    IF n = 0 THEN [ok |-> TRUE, val |-> read, pos |-> pos]
    ELSE LET block_meta_ == BlockMeta_read(buf, pos)
         IN  IF ~block_meta_.ok THEN block_meta_
             ELSE MetaLoop(buf, block_meta_.pos, n - 1, Append(read, block_meta_.val))

\* Meta::read_options
Meta_read(buf, pos) ==
    LET num_blocks == read_varint(buf, pos, FALSE)
    IN  IF ~num_blocks.ok THEN num_blocks ELSE
    LET block_metas == MetaLoop(buf, num_blocks.pos, num_blocks.val, <<>>)
    IN  IF ~block_metas.ok THEN block_metas ELSE
    LET crc32 == read_u32_le(buf, block_metas.pos)
    IN  IF ~crc32.ok THEN crc32
        ELSE [ok |-> TRUE,
              val |-> [num_blocks |-> num_blocks.val,
                       block_metas |-> block_metas.val,
                       block_crc |-> crc32.val],
              pos |-> crc32.pos]

\* first byte of a gzip member (0x1f)
GzipId == 31

\* first byte of a snappy framed stream (0xff)
SnappyId == 255

\* first byte of a zstd frame (0x28)
ZstdId == 40

\* The three codecs, reduced to one container: the first byte of the format,
\* a length n, n bytes of content.  GzDecoder reads one member and leaves what
\* follows it; FrameDecoder and zstd::Decoder read their input to its end.
read_to_end(vec, id, whole) ==
    IF Len(vec) < 2 \/ vec[1] # id THEN Err("Io")
    ELSE IF Len(vec) < 2 + vec[2] THEN Err("Io")
    ELSE IF whole /\ Len(vec) > 2 + vec[2] THEN Err("Io")
    ELSE [ok |-> TRUE, val |-> SubSeq(vec, 3, 2 + vec[2]), pos |-> 2 + vec[2]]

\* decompress that reads one entry less than asked
decompress_one_less(vec, enc_type, num_entries) ==
    LET decoded ==
            IF enc_type = "EncGZIP" THEN read_to_end(vec, GzipId, FALSE)
            ELSE IF enc_type = "EncSnappy" THEN read_to_end(vec, SnappyId, TRUE)
            ELSE IF enc_type = "EncZstd" THEN read_to_end(vec, ZstdId, TRUE)
            ELSE Err("Custom: not supported")
    IN  IF ~decoded.ok THEN decoded
        ELSE UnorderedBlock_read(decoded.val, 0, Max(num_entries - 1, 0))

\* decompress
decompress(vec, enc_type, num_entries) ==
    LET decoded ==
            IF enc_type = "EncGZIP" THEN read_to_end(vec, GzipId, FALSE)
            ELSE IF enc_type = "EncSnappy" THEN read_to_end(vec, SnappyId, TRUE)
            ELSE IF enc_type = "EncZstd" THEN read_to_end(vec, ZstdId, TRUE)
            ELSE Err("Custom: not supported")
    IN  IF ~decoded.ok THEN decoded
        ELSE UnorderedBlock_read(decoded.val, 0, num_entries)

\* lines 164-166 with cur_pos taken before the length field is read
SkipLengthNot(buf, pos) == {pos}

\* lines 164-166: the positions stream_position() can return after the length
\* field has been read and the result of the read dropped; a failed read
\* leaves the reader at its start or at the end of the stream
SkipLength(buf, pos) ==
    IF pos + 4 <= Len(buf) THEN {pos + 4} ELSE {pos, Max(pos, Len(buf))}

\* lines 164-172: the length field, cur_pos, the offset in the last 8 bytes,
\* the Meta table
ReadMetaTable ==
    /\ cd.pc = "start"
    /\ \E cur_pos \in SkipLength(data, cd.at) :
         IF Len(data) < 8
         THEN cd' = [cd EXCEPT !.pc = "error", !.err = "Io", !.cur_pos = cur_pos]
         ELSE \E offset \in {read_u64_be(data, Len(data) - 8)} :
              \E meta \in {Meta_read(data, offset.val + cur_pos)} :
                cd' = IF meta.ok
                      THEN [cd EXCEPT !.pc = "header", !.cur_pos = cur_pos,
                                      !.offset = offset.val,
                                      !.meta = Some(meta.val),
                                      !.seeks = <<offset.val + cur_pos>>]
                      ELSE [cd EXCEPT !.pc = "error", !.err = meta.err,
                                      !.cur_pos = cur_pos,
                                      !.offset = offset.val,
                                      !.seeks = <<offset.val + cur_pos>>]
    /\ UNCHANGED <<data, args, blk, block_meta>>
    /\ UNCHANGED bolt_vars
    /\ UNCHANGED query_vars

\* lines 175-183: the magic number, the version, the encoding
ReadHeader ==
    /\ cd.pc = "header"
    /\ \E number \in {magic(data, cd.cur_pos, MagicBytes)} :
         IF ~number.ok
         THEN cd' = [cd EXCEPT !.pc = "error", !.err = number.err,
                               !.seeks = Append(cd.seeks, cd.cur_pos)]
         ELSE \E version \in {magic(data, number.pos, VersionBytes)} :
              IF ~version.ok
              THEN cd' = [cd EXCEPT !.pc = "error", !.err = version.err,
                                    !.seeks = Append(cd.seeks, cd.cur_pos)]
              ELSE \E et \in {read_u8(data, version.pos)} :
                   cd' = IF ~et.ok
                         THEN [cd EXCEPT !.pc = "error", !.err = et.err,
                                         !.seeks = Append(cd.seeks, cd.cur_pos)]
                         ELSE IF EncType_from_u8(et.val) = None
                         THEN [cd EXCEPT !.pc = "panic", !.et = Some(et.val),
                                         !.seeks = Append(cd.seeks, cd.cur_pos)]
                         ELSE [cd EXCEPT !.pc = "blocks", !.et = Some(et.val),
                                         !.ty = EncType_from_u8(et.val),
                                         !.seeks = Append(cd.seeks, cd.cur_pos)]
    /\ UNCHANGED <<data, args, blk, block_meta>>
    /\ UNCHANGED bolt_vars
    /\ UNCHANGED query_vars

\* lines 186-196: one iteration of the loop over the blocks
ReadBlock ==
    /\ cd.pc = "blocks"
    /\ Len(cd.blocks) < cd.meta[1].num_blocks
    /\ \E block_meta_ \in {cd.meta[1].block_metas[Len(cd.blocks) + 1]} :
       \E vec \in {read_exact(data, block_meta_.offset + cd.cur_pos,
                              block_meta_.compressed_size)} :
         IF ~vec.ok
         THEN cd' = [cd EXCEPT !.pc = "error", !.err = vec.err,
                               !.seeks = Append(cd.seeks, block_meta_.offset + cd.cur_pos)]
         ELSE \E bs \in {decompress(vec.val, cd.ty[1], block_meta_.num_entries)} :
                cd' = IF ~bs.ok
                      THEN [cd EXCEPT !.pc = "error", !.err = bs.err,
                                      !.seeks = Append(cd.seeks, block_meta_.offset + cd.cur_pos)]
                      ELSE [cd EXCEPT !.blocks = Append(cd.blocks, bs.val),
                                      !.seeks = Append(cd.seeks, block_meta_.offset + cd.cur_pos)]
    /\ UNCHANGED <<data, args, blk, block_meta>>
    /\ UNCHANGED bolt_vars
    /\ UNCHANGED query_vars

\* lines 198-202: Ok(ChunkData { ty, blocks, meta })
ReturnChunkData ==
    /\ cd.pc = "blocks"
    /\ Len(cd.blocks) = cd.meta[1].num_blocks
    /\ cd' = [cd EXCEPT !.pc = "ok"]
    /\ UNCHANGED <<data, args, blk, block_meta>>
    /\ UNCHANGED bolt_vars
    /\ UNCHANGED query_vars

ChunkDataNext == ReadMetaTable \/ ReadHeader \/ ReadBlock \/ ReturnChunkData

----------------------------------------------------------------------------
(* ChunkData::read_options on chunk data sections laid out in several ways *)

MaxBlocks == 2

\* the length of the bytes before the data section
HeaderLens == {0, 7}

\* the encoding bytes: none, gzip, snappy, zstd, and one beyond the enum
Tags == {0, 1, 4, 9, 10}

\* the entries of a block before compression: none, (1 ns, "a"), and
\* (1 ns, "a") (2 ns, "bc")
Payloads ==
    {[n |-> 0, bytes |-> <<>>],
     [n |-> 1, bytes |-> <<2, 1, 97>>],
     [n |-> 2, bytes |-> <<2, 1, 97, 4, 2, 98, 99>>]}

Variants == {"plain", "meta_first", "long_block", "short_block", "more_entries",
             "length_base", "bad_magic", "bad_version"}

CodecId(tag) == IF tag = 1 THEN GzipId ELSE IF tag = 4 THEN SnappyId ELSE ZstdId

Zeros(n) == [i \in 1..n |-> 0]

RECURSIVE TotalLen(_, _)
\* the length of the first k of the byte strings
TotalLen(strings, k) == IF k = 0 THEN 0 ELSE TotalLen(strings, k - 1) + Len(strings[k])

\* A data section after h bytes of header: the length field, the magic
\* number, the version, the encoding, a block for each payload, the Meta
\* table, the offset of the Meta table.  The variants put the Meta table
\* before the blocks, have the last block claim one byte more, cut the last
\* byte of the first block, announce one entry more in the first block, count
\* the offsets from the length field, or spoil the magic number or version.
ChunkDataSection(h, tag, payloads, variant) ==
    LET n == Len(payloads)
        frames == [i \in 1..n |->
                     LET bytes == payloads[i].bytes
                     IN  <<CodecId(tag), Len(bytes)>> \o
                         IF variant = "short_block" /\ i = 1 /\ bytes # <<>>
                         THEN SubSeq(bytes, 1, Len(bytes) - 1) ELSE bytes]
        table_len == 1 + 6 * n + 4
        delta == IF variant = "length_base" THEN 4 ELSE 0
        first == 6 + delta + IF variant = "meta_first" THEN table_len ELSE 0
        meta_offset == 6 + delta + IF variant = "meta_first" THEN 0 ELSE TotalLen(frames, n)
        metas == [i \in 1..n |->
                    <<payloads[i].n + IF variant = "more_entries" /\ i = 1 THEN 1 ELSE 0,
                      1, 2,
                      first + TotalLen(frames, i - 1),
                      Len(payloads[i].bytes),
                      Len(frames[i]) + IF variant = "long_block" /\ i = n THEN 1 ELSE 0>>]
        table == <<n>> \o Flatten(metas) \o <<199, 132, 40, 177>>
        head == (IF variant = "bad_magic" THEN <<1, 46, 229, 107>> ELSE MagicBytes)
                \o (IF variant = "bad_version" THEN <<2>> ELSE VersionBytes)
                \o <<tag>>
    IN  Zeros(h) \o Zeros(4)
        \o (IF variant = "meta_first" THEN head \o table \o Flatten(frames)
            ELSE head \o Flatten(frames) \o table)
        \o Zeros(7) \o <<meta_offset>>

InitChunkData ==
    /\ \E h \in HeaderLens :
         /\ cd = StartOfChunkData(h)
         /\ \/ \E tag \in Tags, payloads \in SeqsUpTo(Payloads, MaxBlocks), variant \in Variants :
                 data = ChunkDataSection(h, tag, payloads, variant)
            \/ data = Zeros(h) \o <<0, 0>>
    /\ IdleBlock
    /\ IdleBolt
    /\ IdleInspect
    /\ IdleParse
    /\ IdleExec
    /\ IdleQuery

SpecChunkData == InitChunkData /\ [][ChunkDataNext]_vars

\* has ChunkData::read_options returned or panicked
Ended == cd.pc \in {"ok", "error", "panic"}

\* C14: decoding chunk data whose encoding byte is not gzip (1), snappy (4)
\* or zstd (9) always ends with the unsupported encoding error, for every
\* number of blocks: never with a ChunkData, never with a crash.
C14_UnsupportedTagIsError ==
    (Ended /\ cd.et # None /\ cd.et[1] \notin {1, 4, 9})
    => (cd.pc = "error" /\ cd.err = "Custom: not supported")

\* the position after k varints that begin after position pos
RECURSIVE AfterVarints(_, _, _)
AfterVarints(buf, pos, k) ==
    IF k = 0 THEN pos ELSE AfterVarints(buf, AfterVarint(buf, pos), k - 1)

\* C18: in every decoded chunk data value meta.block_metas has meta.num_blocks
\* elements, each made of six varints in the order num_entries, mint, maxt,
\* offset, uncompressed_size, compressed_size, with one little-endian u32
\* block_crc after them; blocks has meta.num_blocks elements; and blocks[i]
\* holds block_metas[i].num_entries entries.
C18_CountsAgree ==
    cd.pc = "ok" =>
        LET meta == cd.meta[1]
            table == cd.cur_pos + cd.offset
            field(i, k) == UnsignedAt(data, AfterVarints(data, table, 1 + 6 * (i - 1) + k))
            crc == AfterVarints(data, table, 1 + 6 * meta.num_blocks)
        IN  /\ meta.num_blocks = UnsignedAt(data, table)
            /\ Len(meta.block_metas) = meta.num_blocks
            /\ Len(cd.blocks) = meta.num_blocks
            /\ \A i \in 1..meta.num_blocks :
                 /\ meta.block_metas[i].num_entries = field(i, 0)
                 /\ meta.block_metas[i].offset = field(i, 3)
                 /\ meta.block_metas[i].uncompressed_size = field(i, 4)
                 /\ meta.block_metas[i].compressed_size = field(i, 5)
                 /\ Len(cd.blocks[i].entries) = meta.block_metas[i].num_entries
            /\ meta.block_crc[2] = data[crc + 1] + 256 * data[crc + 2]
            /\ meta.block_crc[1] = data[crc + 3] + 256 * data[crc + 4]

C18_Witness ==
    /\ cd.pc = "ok"
    /\ cd.meta[1].num_blocks = 2
    /\ Len(cd.blocks[1].entries) = 2
    /\ Len(cd.blocks[2].entries) = 1

\* the big-endian u64 in the last 8 bytes of data
LastEightBytes ==
    LET x(i) == data[Len(data) - 8 + i]
    IN  ((((((x(1) * 256 + x(2)) * 256 + x(3)) * 256 + x(4)) * 256 + x(5)) * 256
            + x(6)) * 256 + x(7)) * 256 + x(8)

\* the Meta table is decoded at base + meta_offset and block i is read from
\* base + block_metas[i].offset
DecodedFrom(base) ==
    /\ cd.cur_pos = base
    /\ Len(cd.seeks) >= 1 =>
         /\ cd.offset = LastEightBytes
         /\ cd.seeks[1] = base + LastEightBytes
    /\ cd.meta # None => cd.meta[1].num_blocks = UnsignedAt(data, base + LastEightBytes)
    /\ Len(cd.seeks) >= 2 => cd.seeks[2] = base
    /\ \A i \in 1..(Len(cd.seeks) - 2) :
         cd.seeks[2 + i] = base + cd.meta[1].block_metas[i].offset
    /\ \A i \in 1..Len(cd.blocks) :
         data[base + cd.meta[1].block_metas[i].offset + 1]
             = CodecId(cd.et[1])

\* C19 as stated: base is the position of the 4-byte length field, recorded
\* before the field is skipped; the Meta table is decoded at base +
\* meta_offset, meta_offset being the big-endian u64 of the last 8 bytes, and
\* block i is read from base + block_metas[i].offset.
C19_BaseBeforeLength ==
    (cd.pc # "start" /\ cd.at + 4 <= Len(data)) => DecodedFrom(cd.at)

\* C19 amended: base is the position of the first byte after the 4-byte
\* length field, recorded after the field has been read.
C19_BaseAfterLength ==
    (cd.pc # "start" /\ cd.at + 4 <= Len(data)) => DecodedFrom(cd.at + 4)

C19_Witness ==
    /\ cd.pc = "ok"
    /\ cd.at = 7
    /\ cd.cur_pos = 11
    /\ Len(cd.blocks) = 2
    /\ Len(cd.seeks) = 4
    /\ cd.seeks[1] > cd.seeks[4]

\* C20: in every decoded chunk every BlockMeta has offset + compressed_size
\* <= meta_offset: no block reaches into or beyond the Meta table.
C20_BlocksBeforeMeta ==
    cd.pc = "ok" =>
        \A i \in 1..Len(cd.meta[1].block_metas) :
            cd.meta[1].block_metas[i].offset + cd.meta[1].block_metas[i].compressed_size
                <= cd.offset

----------------------------------------------------------------------------
(* get_duration as the query command calls it *)

\* the time range options of a command line: every combination of given
\* and omitted start, end, duration and since
InitQuery ==
    /\ b \in [time_range : [start : PlanStarts, end : PlanEnds,
                            since : PlanSinces, duration : PlanDurations],
              query : {<<>>},
              tenant : {T1},
              shard : {1},
              disable_broad_queries : {FALSE}]
    /\ now \in Nows
    /\ db = {}
    /\ from_through = None
    /\ IdleInspect
    /\ IdleParse
    /\ IdleExec
    /\ IdleTy

\* query.rs line 69: get_duration(&q.time_range)
GetDuration ==
    /\ from_through = None
    /\ from_through' = Some(get_duration(b.time_range, now))
    /\ UNCHANGED bolt_vars
    /\ UNCHANGED ty_vars

SpecQuery == InitQuery /\ [][GetDuration]_vars

\* C21: with neither since nor duration given, get_duration returns the
\* range from start, or one hour before now when start is omitted, to end, or
\* now when end is omitted: an omitted start or end is no error.
C21_DefaultsApply ==
    (from_through # None /\ b.time_range.since = None /\ b.time_range.duration = None)
    => /\ from_through[1].ok
       /\ from_through[1].start = IF b.time_range.start = None THEN now - HourMs
                                  ELSE b.time_range.start[1]
       /\ from_through[1].end = IF b.time_range.end = None THEN now
                                ELSE b.time_range.end[1]

====
